---- MODULE Spec2Model ----
(***************************************************************************)
(* gotcha: a typed wrapper around the undici request() transport.          *)
(*                                                                         *)
(* The model follows one gotcha() call per call id through the dispatcher  *)
(* (gotcha), the synchronous prologue of request() (start time, timeout    *)
(* validation, timer and AbortController set-up, signal composition, the   *)
(* fetch call), the suspension at `await fetch(...)`, and the two          *)
(* continuations (the try body after the await, the catch block).          *)
(*                                                                         *)
(* Scheduling is the JavaScript event loop: every action is one            *)
(* run-to-completion job.  A settled transport promise resumes request()   *)
(* in a microtask, so no timer callback and no I/O callback runs between   *)
(* the settlement and the continuation; the clock may advance.  A timer    *)
(* set with setTimeout(cb, t) runs cb t ms after it was armed: time does   *)
(* not pass beyond a due timer, and an I/O completion falling on the same  *)
(* millisecond may run before or after it.                                 *)
(***************************************************************************)
EXTENDS Integers, FiniteSets, Sequences, TLC

\* ------------------------------------------------------------------ bounds
MaxTime == 3

\* ------------------------------------------------------- program constants
TimerMax == 2147483647

\* --------------------------------------------------------------- JS values
\* A JavaScript number (or undefined) given as options.timeout.  `v` is the
\* whole part of the value when it fits the timer range and `fr` its
\* fraction in tenths; a finite value above the range is
\* v + ex + hi * TimerMax (limbs, so that 2147483648 and 2^53 - 1 are
\* representable).
Num(n)        == [k |-> "num",   v |-> n,        ex |-> 0, hi |-> 0, fr |-> 0]
Frac(n, f)    == [k |-> "num",   v |-> n,        ex |-> 0, hi |-> 0, fr |-> f]
BigNum(e)     == [k |-> "num",   v |-> TimerMax, ex |-> e, hi |-> 0, fr |-> 0]
NaN           == [k |-> "nan",   v |-> 0,        ex |-> 0, hi |-> 0, fr |-> 0]
PosInfinity   == [k |-> "inf",   v |-> 1,        ex |-> 0, hi |-> 0, fr |-> 0]
NegInfinity   == [k |-> "inf",   v |-> -1,       ex |-> 0, hi |-> 0, fr |-> 0]
Undefined     == [k |-> "undef", v |-> 0,        ex |-> 0, hi |-> 0, fr |-> 0]
\* Number.MAX_SAFE_INTEGER = 2^53 - 1 = TimerMax + 4194303 + 4194303 * TimerMax
MaxSafeInteger ==
    [k |-> "num", v |-> TimerMax, ex |-> 4194303, hi |-> 4194303, fr |-> 0]

\* `timeout` used as a condition: 0, NaN and undefined are falsy
Truthy(t) ==
    \/ t.k = "num" /\ (t.v # 0 \/ t.ex # 0 \/ t.hi # 0 \/ t.fr # 0)
    \/ t.k = "inf"
\* `timeout > 0`: false for NaN and undefined
GreaterThan0(t) ==
    (t.k \in {"num", "inf"}) /\ (t.v > 0 \/ (t.v = 0 /\ t.fr > 0))
\* Number.isFinite(timeout)
IsFinite(t)    == t.k = "num"
\* the range test written with <
LeqTimerMax_Strict(t) ==
    \/ (t.k = "num" /\ t.ex = 0 /\ t.hi = 0 /\ t.v < TimerMax)
    \/ (t.k = "inf" /\ t.v < 0)

\* `timeout <= 2147483647`
LeqTimerMax(t) ==
    \/ /\ t.k = "num" /\ t.ex = 0 /\ t.hi = 0
       /\ (t.v < TimerMax \/ (t.v = TimerMax /\ t.fr = 0))
    \/ (t.k = "inf" /\ t.v < 0)

\* ------------------------------------------------------------ input domains
TimeoutValues ==
    { Undefined, Num(0), Num(-1), NaN, PosInfinity, NegInfinity,
      Num(1), Num(2), Num(TimerMax), BigNum(1), MaxSafeInteger, Frac(1, 5) }

StatusCodes == {200, 299, 300, 399, 400, 499, 500, 503, 600}

\* transport-level faults that are not caused by an abort signal
NetworkFaults == {"ENOTFOUND", "ECONNREFUSED"}
\* the fault undici rejects with when the signal it was given aborts
AbortFault == "AbortError"

Methods == {"undefined", "POST"}

\* first argument of gotcha(): `kind` is "string", "URL" (a URL instance) or
\* "object"; `str` the text of a string or the href of a URL instance; `obj`
\* the own properties of a plain object as [key, t, v] triples (t the typeof
\* the value, v its text)
StringUrl   == [kind |-> "string", str |-> "http://host/path", obj |-> {}]
UrlInstance == [kind |-> "URL",    str |-> "http://host/path", obj |-> {}]
\* the placeholder Configure shape { foo: 1, bar: 2 }
ConfigureArg ==
    [kind |-> "object", str |-> "",
     obj |-> { [key |-> "foo", t |-> "number", v |-> "1"],
               [key |-> "bar", t |-> "number", v |-> "2"] }]

\* the structured form { hostname: "example.com", port: 80, path: "api" }
HostObject ==
    [kind |-> "object", str |-> "",
     obj |-> { [key |-> "hostname", t |-> "string", v |-> "example.com"],
               [key |-> "port",     t |-> "number", v |-> "80"],
               [key |-> "path",     t |-> "string", v |-> "api"] }]
\* a structured form whose values happen to be key names:
\* { hostname: "hostname", path: "path" }
KeyNamedObject ==
    [kind |-> "object", str |-> "",
     obj |-> { [key |-> "hostname", t |-> "string", v |-> "hostname"],
               [key |-> "path",     t |-> "string", v |-> "path"] }]
\* an object that is not a UrlObject: { foo: "port" }
OddObject ==
    [kind |-> "object", str |-> "",
     obj |-> { [key |-> "foo", t |-> "string", v |-> "port"] }]

FirstArgs ==
    {StringUrl, UrlInstance, ConfigureArg, HostObject, KeyNamedObject, OddObject}

AllCalls == {1, 2}
\* calls made in the single-call specification
CallIds == {1}


\* ------------------------------------------------------------------- state
VARIABLES
    now,                \* Date.now(), in ms
    args,               \* args[i]: [url, timeout, signal, method] of call i
    server,             \* server[i]: status code the response to call i carries
    pc,                 \* "ready" | "await" (suspended at await fetch) | "done"
    startTime,          \* const startTime = Date.now()
    timeoutId,          \* "undefined" | "armed" | "fired" | "cleared"
    armedAt,            \* time at which setTimeout was called
    controller,         \* "undefined" | "live" | "aborted"
    combinedController, \* "undefined" | "live" | "aborted"
    controllerListener, \* listener of line 225 registered on controller.signal
    externalAborted,    \* the caller's AbortSignal .aborted
    externalListeners,  \* calls whose listener of line 214 is on the caller's signal
    undiciSignal,       \* undiciOptions.signal: "undefined" | "external" | "controller" | "combined"
    transport,          \* the fetch() call: [state, invocations, statusCode, fault, cause, sawAborted]
    outcome,            \* what the promise returned by gotcha() settled to
    existingAborted,    \* existingSignal.aborted as read at line 209 / at the call
    guards,             \* what the type guards returned for the settled value of call i
    timers,             \* timers[i]: number of setTimeout calls made by call i
    options             \* options[i]: the caller's options object of call i

vars == << now, args, server, pc, startTime, timeoutId, armedAt, controller,
           combinedController, controllerListener, externalAborted,
           externalListeners, undiciSignal, transport, outcome,
           existingAborted, guards, timers, options >>

\* ------------------------------------------------------------ type guards
UrlObjectKeys == {"port", "path", "pathname", "hostname", "origin", "search"}

PropType(o, key) ==
    IF \E p \in o : p.key = key
    THEN (CHOOSE p \in o : p.key = key).t
    ELSE "undefined"

\* Object.keys(val).every(i => keys.includes(val[i])) tests the VALUE of each
\* property against the key list
isUrlObject(val) ==
    /\ val.kind = "object"
    /\ \A p \in val.obj : p.t = "string" /\ p.v \in UrlObjectKeys
    /\ PropType(val.obj, "port") \in {"undefined", "number"}
    /\ PropType(val.obj, "path") \in {"undefined", "string"}
    /\ PropType(val.obj, "pathname") \in {"undefined", "string"}
    /\ PropType(val.obj, "hostname") \in {"undefined", "string"}
    /\ PropType(val.obj, "origin") \in {"undefined", "string"}

\* every argument list taken for a request
isGotchaRequest_Any(req) == TRUE

\* req is the rest-parameter array, so isArray(req) holds
isGotchaRequest(req) ==
    \/ req.url.kind = "string"
    \/ req.url.kind = "URL"
    \/ isUrlObject(req.url)

\* ------------------------------------------------------------- request()
\* `${x}` of a property: its text, or "undefined" when the object lacks it
PropText(o, key) ==
    IF \E p \in o : p.key = key
    THEN (CHOOSE p \in o : p.key = key).v
    ELSE "undefined"

\* `${url.port || 80}`
PortOr80(o) ==
    IF PropType(o, "port") = "undefined" \/ PropText(o, "port") \in {"0", ""}
    THEN ToString(80) ELSE PropText(o, "port")

\* lines 173-180: urlString
UrlString(url) ==
    IF url.kind = "string" THEN url.str
    ELSE IF url.kind = "URL" THEN url.str
    ELSE IF isUrlObject(url)
         THEN PropText(url.obj, "hostname") \o ":" \o PortOr80(url.obj)
                 \o "/" \o PropText(url.obj, "path")
    ELSE ""

\* the range test `timeout <= 2147483647` left out
IsValidTimeout_NoRange(t) ==
    Truthy(t) /\ GreaterThan0(t) /\ IsFinite(t)

\* line 187: timeout && timeout > 0 && Number.isFinite(timeout) && timeout <= 2147483647
IsValidTimeout(t) ==
    Truthy(t) /\ GreaterThan0(t) /\ IsFinite(t) /\ LeqTimerMax(t)

\* a timer started whether or not the timeout is valid
TimersStarted_Always(valid) == 1

\* lines 187-194: the one setTimeout call, inside the validity test
TimersStarted(valid) == IF valid THEN 1 ELSE 0

\* a timer armed one millisecond late
TimerDelay_Late(t) == IF t.v < TimerMax THEN t.v + 1 ELSE t.v

\* the delay given to setTimeout, in whole milliseconds of Date.now(): a
\* timer of 1.5 ms armed at an instant that reads s comes due at an instant
\* that reads s + 1 or s + 2
TimerDelay(t) == t.v

\* the reading, counted from the arming, by which a timer of t ms has come
\* due whenever it was armed within its millisecond
TimerLatest(t) == IF t.fr > 0 THEN TimerDelay(t) + 1 ELSE TimerDelay(t)

\* clearTimeout(timeoutId) under `if (timeoutId)`: a pending timer is
\* cancelled, a timer that has fired (or none) is left as it is
ClearTimeout(id) == IF id = "armed" THEN "cleared" ELSE id

\* a cleanup that leaves the timer running
Cleanup_Missing(id) == id

\* cleanup() of lines 202-206
Cleanup(id) == ClearTimeout(id)

\* the try body returning without clearing the timer
ClearOnSuccess_Missing(id) == id

\* lines 246-248: clear the timer once fetch() has resolved
ClearOnSuccess(id) == ClearTimeout(id)

\* the catch block not clearing the timer
ClearOnError_Missing(id) == id

\* lines 297-299: clear the timer in the catch block
ClearOnError(id) == ClearTimeout(id)

\* no listener put on the internal signal
ListensToController_Never(valid, existing) == FALSE

\* lines 225-233: with both signals, a listener on controller.signal
\* forwards its abort to the combined controller
ListensToController(valid, existing) == valid /\ existing

\* the already-aborted test of line 209 left out
CombinedAtSetup_NeverAborted(aborted) == "live"

\* lines 200-212: the combined controller, aborted at once when the existing
\* signal is already aborted
CombinedAtSetup(aborted) ==
    IF aborted THEN "aborted" ELSE "live"

\* the caller's signal left in place instead of the combined one
UndiciSignal_KeepExisting(valid, existing) ==
    IF existing THEN "external"
    ELSE IF valid THEN "controller" ELSE "undefined"

\* lines 197-239: the signal installed in undiciOptions
UndiciSignal(valid, existing) ==
    IF valid
    THEN (IF existing THEN "combined" ELSE "controller")
    ELSE (IF existing THEN "external" ELSE "undefined")

\* a classification that remembers an earlier timeout
Classify_AfterTimeout(c) ==
    IF \E j \in AllCalls : outcome[j].kind = "timeout" THEN "server-error"
    ELSE IF c < 300 THEN "success"
    ELSE IF c < 400 THEN "redirection"
    ELSE IF c < 500 THEN "client-error"
    ELSE "server-error"

\* the success range closed at 300
Classify_OffByOne(c) ==
    IF c <= 300 THEN "success"
    ELSE IF c < 400 THEN "redirection"
    ELSE IF c < 500 THEN "client-error"
    ELSE "server-error"

\* the status ranges of lines 250-293
Classify(c) ==
    IF c < 300 THEN "success"
    ELSE IF c < 400 THEN "redirection"
    ELSE IF c < 500 THEN "client-error"
    ELSE "server-error"

\* a catch block without the timeout branch
CatchIsTimeout_Never(ctrl, t) == FALSE

\* attribution by the configured option alone
CatchIsTimeout_ByOption(ctrl, t) == Truthy(t)

\* line 302: controller?.signal.aborted && timeout
CatchIsTimeout(ctrl, t) == ctrl = "aborted" /\ Truthy(t)

\* line 303: Date.now() - startTime
ElapsedTime(t, start) == t - start

\* undiciOptions?.method || "GET"
MethodOrGet(m) == IF m = "undefined" THEN "GET" ELSE m

\* the undici response of a call: the fields request() copies, as tokens;
\* `ref` is the identity of the object, `bodyUsed` tells whether its body
\* stream has been read
Response(code) ==
    [ref |-> "res", statusCode |-> code, headers |-> "res.headers",
     body |-> "res.body", bodyUsed |-> FALSE, context |-> "res.context",
     opaque |-> "res.opaque", trailers |-> "res.trailers"]

\* no response returned
NoResponse ==
    [ref |-> "none", statusCode |-> 0, headers |-> "", body |-> "",
     bodyUsed |-> FALSE, context |-> "", opaque |-> "", trailers |-> ""]

\* a fresh object holding the response's fields, its body read
ReturnResponse_Copied(req) == [req EXCEPT !.ref = "copy", !.bodyUsed = TRUE]

\* line 251: return req
ReturnResponse(req) == req

\* `context` is the error's context object as a set of <<key, value>> pairs
\* (values as text), `message` the pieces of the template literal that make
\* the error's message, in order
NoOutcome ==
    [st |-> "pending", kind |-> "none", code |-> 0, fault |-> "none",
     url |-> "", timeout |-> Undefined, elapsedTime |-> 0, method |-> "",
     at |-> 0, context |-> {}, message |-> << >>, response |-> NoResponse]

\* the text of a number n in a template literal or a context value
NumText(t) ==
    CASE t.k = "undef" -> "undefined"
      [] t.k = "nan"   -> "NaN"
      [] t.k = "inf"   -> IF t.v > 0 THEN "Infinity" ELSE "-Infinity"
      [] OTHER         -> IF t.ex # 0 \/ t.hi # 0
                          THEN ToString(t.v) \o "+" \o ToString(t.ex)
                                  \o "+" \o ToString(t.hi) \o "*" \o ToString(t.v)
                          ELSE IF t.fr # 0
                          THEN ToString(t.v) \o "." \o ToString(t.fr)
                          ELSE ToString(t.v)

\* the base context given to createKindError
BaseContext == { << "library", "gotcha" >> }

\* the context object of lines 256-263, 270-277 and 284-291
StatusContext(req) ==
    { << "headers", req.headers >>, << "code", ToString(req.statusCode) >>,
      << "body", req.body >>, << "context", req.context >>,
      << "opaque", req.opaque >>, << "trailers", req.trailers >> }
        \cup BaseContext

\* the message templates of lines 255, 269 and 283
StatusMessage(kind, urlString) ==
    CASE kind = "redirection" ->
           << "A redirection took place while requesting the URL: '",
              urlString, "'." >>
      [] kind = "client-error" ->
           << "A client-based network error happened requesting the URL: '",
              urlString, "'." >>
      [] kind = "server-error" ->
           << "A server-based network error happened requesting the URL: '",
              urlString, "'." >>
      [] OTHER -> << >>

\* a context whose method is the caller's, undefined included
TimeoutContext_RawMethod(urlString, timeout, elapsedTime, method) ==
    { << "url", urlString >>, << "timeout", NumText(timeout) >>,
      << "elapsedTime", ToString(elapsedTime) >>,
      << "method", method >> } \cup BaseContext

\* the context object of lines 306-311
TimeoutContext(urlString, timeout, elapsedTime, method) ==
    { << "url", urlString >>, << "timeout", NumText(timeout) >>,
      << "elapsedTime", ToString(elapsedTime) >>,
      << "method", MethodOrGet(method) >> } \cup BaseContext

\* a message that gives the limit where the elapsed time belongs
TimeoutMessage_LimitTwice(urlString, timeout, elapsedTime) ==
    << "Request timed out after ", NumText(timeout), "ms (limit: ",
       NumText(timeout), "ms) while requesting the URL: '", urlString, "'." >>

\* the message template of line 305
TimeoutMessage(urlString, timeout, elapsedTime) ==
    << "Request timed out after ", ToString(elapsedTime), "ms (limit: ",
       NumText(timeout), "ms) while requesting the URL: '", urlString, "'." >>

\* the options object a caller passes, as a set of <<key, value>> pairs: a
\* key is present when the caller gave the property
CallerOptions(req) ==
    (IF req.method = "undefined" THEN {} ELSE { << "method", req.method >> })
    \cup (IF req.timeout = Undefined THEN {}
          ELSE { << "timeout", NumText(req.timeout) >> })
    \cup (IF req.signal = "undefined" THEN {} ELSE { << "signal", req.signal >> })

\* a rest pattern that takes nothing out
RestOptions_KeepTimeout(opts) == opts

\* line 171: const { timeout, ...undiciOptions } = options || {}
RestOptions(opts) == { p \in opts : p[1] # "timeout" }

\* undiciOptions as handed to fetch() on line 243: the rest of the caller's
\* options, with `signal` assigned on line 235 or 238 when a timer is armed
FetchOptions(req, valid, existing) ==
    LET rest == RestOptions(CallerOptions(req))
    IN  IF valid
        THEN { p \in rest : p[1] # "signal" }
                 \cup { << "signal", UndiciSignal(valid, existing) >> }
        ELSE rest

\* a set-up that takes `timeout` out of the caller's own object and installs
\* its signal there
OptionsAfterSetup_InPlace(opts, sig) ==
    { p \in opts : p[1] \notin {"timeout", "signal"} }
        \cup (IF sig = "undefined" THEN {} ELSE { << "signal", sig >> })

\* lines 171-239: the caller's object is only read, by the destructuring of
\* line 171; every assignment goes to the copy undiciOptions
OptionsAfterSetup(opts, sig) == opts

\* the first argument of a transport not invoked yet
NoTarget == [kind |-> "none", str |-> "", obj |-> {}]

IdleTransport ==
    [state |-> "idle", invocations |-> 0, statusCode |-> 0, fault |-> "none",
     cause |-> "none", sawAborted |-> FALSE, settledAt |-> 0,
     target |-> NoTarget, options |-> {}]

\* ------------------------------------------------ kind guards and isOk
\* a value handed to a guard: `error` tells whether it is an Error instance,
\* `kind` is its kind property ("none" when it has none)
SuccessValue  == [error |-> FALSE, kind |-> "none"]
PlainError    == [error |-> TRUE,  kind |-> "none"]
KindError(k)  == [error |-> TRUE,  kind |-> k]

\* the value a caller holds once the promise of gotcha() has settled: the
\* response, one of the four error values, or the Error it caught
SettledValue(o) ==
    IF o.st = "fulfilled"
    THEN (IF o.kind = "success" THEN SuccessValue ELSE KindError(o.kind))
    ELSE PlainError

\* X.is(val) of an error type made by createKindError
KindIs(k, val) == val.error /\ val.kind = k

\* isError(val)
isError(val) == val.error

wasRedirected(val) == KindIs("redirection", val)

wasClientError(val) == KindIs("client-error", val)

\* the guard testing the kind its return type names
wasServerError_ClientKind(val) == KindIs("client-error", val)

wasServerError(val) == KindIs("server-error", val)

\* a timeout guard that accepts every Error
timedOut_AnyError(val) == val.error

timedOut(val) == KindIs("timeout", val)

\* a success check that only excludes the four kinds
isOk_NotOfFourKinds(val) ==
    val.kind \notin {"redirection", "client-error", "server-error", "timeout"}

isOk(val) == ~isError(val)

NotInspected ==
    [inspected |-> FALSE, val |-> SuccessValue, wasRedirected |-> FALSE,
     wasClientError |-> FALSE, wasServerError |-> FALSE, timedOut |-> FALSE,
     isOk |-> FALSE]

\* ------------------------------------------------------------ initial state
CallArgs ==
    [url : FirstArgs, timeout : TimeoutValues,
     signal : {"undefined", "external"}, method : Methods]

\* a call never made: gotcha("http://host/path") kept in the "unused" state
NoArgs ==
    [url |-> StringUrl, timeout |-> Undefined, signal |-> "undefined",
     method |-> "undefined"]

InitCalls(C) ==
    /\ now = 0
    /\ args \in { a \in [AllCalls -> CallArgs] : \A i \in AllCalls \ C : a[i] = NoArgs }
    /\ server \in { f \in [AllCalls -> StatusCodes] : \A i \in AllCalls \ C : f[i] = 200 }
    /\ pc = [i \in AllCalls |-> IF i \in C THEN "ready" ELSE "unused"]
    /\ startTime = [i \in AllCalls |-> 0]
    /\ timeoutId = [i \in AllCalls |-> "undefined"]
    /\ armedAt = [i \in AllCalls |-> 0]
    /\ controller = [i \in AllCalls |-> "undefined"]
    /\ combinedController = [i \in AllCalls |-> "undefined"]
    /\ controllerListener = [i \in AllCalls |-> FALSE]
    /\ externalAborted = FALSE
    /\ externalListeners = {}
    /\ undiciSignal = [i \in AllCalls |-> "undefined"]
    /\ transport = [i \in AllCalls |-> IdleTransport]
    /\ outcome = [i \in AllCalls |-> NoOutcome]
    /\ existingAborted = [i \in AllCalls |-> FALSE]
    /\ guards = [i \in AllCalls |-> NotInspected]
    /\ timers = [i \in AllCalls |-> 0]
    /\ options = [i \in AllCalls |-> CallerOptions(args[i])]

Init == InitCalls(CallIds)

\* ------------------------------------------------------------ event loop
\* a settled fetch() promise whose continuation has not run yet
MicrotaskPending ==
    \E i \in AllCalls : pc[i] = "await" /\ transport[i].state \in {"resolved", "failed"}

TimerDue(i) ==
    timeoutId[i] = "armed" /\ now - armedAt[i] >= TimerDelay(args[i].timeout)

\* the timer's due time has certainly passed
TimerOverdue(i) ==
    timeoutId[i] = "armed" /\ now - armedAt[i] >= TimerLatest(args[i].timeout)

\* is the signal that call i handed to fetch() aborted, given the states of
\* the three signals
HandedAborted(sig, ext, ctrl, comb) ==
    CASE sig = "external"   -> ext
      [] sig = "controller" -> ctrl = "aborted"
      [] sig = "combined"   -> comb = "aborted"
      [] OTHER              -> FALSE

\* an abort() that does nothing
Abort_NoEffect(c) == c

\* controller.abort(): no effect on an aborted (or absent) controller
Abort(c) == IF c = "live" THEN "aborted" ELSE c

\* undici rejects a pending request as soon as its signal aborts
AbortTransport(tr, cause) ==
    [tr EXCEPT !.state = "failed", !.fault = AbortFault, !.cause = cause,
               !.settledAt = now]

\* ------------------------------------------------------- gotcha(...req)
\* lines 168-243 of request(): everything up to the suspension at await
Request(i) ==
    LET req      == args[i]
        valid    == IsValidTimeout(req.timeout)
        existing == req.signal = "external"
        comb     == IF valid /\ existing
                    THEN CombinedAtSetup(externalAborted) ELSE "undefined"
        sig      == UndiciSignal(valid, existing)
        ctrl     == IF valid THEN "live" ELSE "undefined"
        aborted  == HandedAborted(sig, externalAborted, ctrl, comb)
        invoked  == [transport[i] EXCEPT !.invocations = @ + 1,
                                         !.state = "pending",
                                         !.sawAborted = aborted,
                                         !.target = req.url,
                                         !.options =
                                             FetchOptions(req, valid, existing)]
    IN  /\ startTime' = [startTime EXCEPT ![i] = now]
        /\ controller' = [controller EXCEPT ![i] = ctrl]
        /\ armedAt' = [armedAt EXCEPT ![i] = IF valid THEN now ELSE @]
        /\ timeoutId' = [timeoutId EXCEPT ![i] =
               IF valid
               THEN (IF existing /\ externalAborted
                     THEN Cleanup("armed") ELSE "armed")
               ELSE "undefined"]
        /\ combinedController' = [combinedController EXCEPT ![i] = comb]
        /\ externalListeners' =
               IF valid /\ existing /\ ~externalAborted
               THEN externalListeners \cup {i} ELSE externalListeners
        /\ controllerListener' = [controllerListener EXCEPT ![i] =
               ListensToController(valid, existing)]
        /\ undiciSignal' = [undiciSignal EXCEPT ![i] = sig]
        /\ transport' = [transport EXCEPT ![i] =
               IF aborted THEN AbortTransport(invoked, "external") ELSE invoked]
        /\ existingAborted' = [existingAborted EXCEPT ![i] =
               existing /\ externalAborted]
        /\ timers' = [timers EXCEPT ![i] = @ + TimersStarted(valid)]
        /\ options' = [options EXCEPT ![i] = OptionsAfterSetup(@, sig)]
        /\ pc' = [pc EXCEPT ![i] = "await"]
        /\ UNCHANGED << outcome >>

\* the else branch of gotcha(): throw new Error("Configure type not yet implemented")
ThrowNotImplemented(i) ==
    /\ pc' = [pc EXCEPT ![i] = "done"]
    /\ outcome' = [outcome EXCEPT ![i] =
           [NoOutcome EXCEPT !.st = "thrown", !.kind = "fault",
                             !.fault = "Configure type not yet implemented",
                             !.message = << "Configure type not yet implemented" >>,
                             !.at = now]]
    /\ UNCHANGED << startTime, timeoutId, armedAt, controller, combinedController,
                    controllerListener, externalListeners, undiciSignal, transport,
                    existingAborted, timers, options >>

Gotcha(i) ==
    /\ pc[i] = "ready"
    /\ IF isGotchaRequest(args[i]) THEN Request(i) ELSE ThrowNotImplemented(i)
    /\ UNCHANGED << now, args, server, externalAborted, guards >>

\* ------------------------------------------------- timer callback (190-194)
\* one controller shared by every call
ClosesOver_Shared(i, j) == TRUE

\* `let timeoutId` and `let controller` are locals of request(): the timer
\* callback of call i closes over the controller of call j only when j = i
ClosesOver(i, j) == i = j

\* setTimeout(() => { if (controller) controller.abort(); }, timeout).
\* The abort event runs the listener of line 225 when it is registered
\* (combinedController.abort(); cleanup()) and the transport's own listener.
TimerFire(i) ==
    /\ TimerDue(i)
    /\ ~MicrotaskPending
    /\ LET ctrl == [j \in AllCalls |->
                       IF ClosesOver(i, j) THEN Abort(controller[j]) ELSE controller[j]]
           heard == [j \in AllCalls |->
                       ClosesOver(i, j) /\ controllerListener[j] /\ controller[j] = "live"]
           comb == [j \in AllCalls |->
                       IF heard[j] THEN Abort(combinedController[j])
                       ELSE combinedController[j]]
       IN  /\ timeoutId' = [j \in AllCalls |->
                  IF j = i THEN "fired"
                  ELSE IF heard[j] THEN Cleanup(timeoutId[j]) ELSE timeoutId[j]]
           /\ controller' = ctrl
           /\ combinedController' = comb
           /\ controllerListener' = [j \in AllCalls |->
                  controllerListener[j] /\ ~heard[j]]
           /\ transport' = [j \in AllCalls |->
                  IF /\ ClosesOver(i, j)
                     /\ transport[j].state = "pending"
                     /\ HandedAborted(undiciSignal[j], externalAborted, ctrl[j], comb[j])
                  THEN AbortTransport(transport[j], "internal") ELSE transport[j]]
    /\ UNCHANGED << now, args, server, pc, startTime, armedAt, externalAborted,
                    externalListeners, undiciSignal, outcome, existingAborted, guards, timers, options >>

\* ------------------------------------- the caller aborts its own signal
\* Runs every listener of line 214 still registered on the signal
\* (combinedController.abort(); cleanup()), each once, and the transport's
\* listener of every pending request that was handed the signal itself.
ExternalAbort ==
    /\ ~externalAborted
    /\ \E i \in AllCalls : pc[i] # "unused" /\ args[i].signal = "external"
    /\ externalAborted' = TRUE
    /\ LET comb == [i \in AllCalls |->
                       IF i \in externalListeners
                       THEN Abort(combinedController[i]) ELSE combinedController[i]]
       IN  /\ combinedController' = comb
           /\ timeoutId' = [i \in AllCalls |->
                  IF i \in externalListeners
                  THEN Cleanup(timeoutId[i]) ELSE timeoutId[i]]
           /\ transport' = [i \in AllCalls |->
                  IF /\ transport[i].state = "pending"
                     /\ HandedAborted(undiciSignal[i], TRUE, controller[i], comb[i])
                  THEN AbortTransport(transport[i], "external") ELSE transport[i]]
    /\ externalListeners' = {}
    /\ UNCHANGED << now, args, server, pc, startTime, armedAt, controller,
                    controllerListener, undiciSignal, outcome, existingAborted, guards, timers, options >>

\* ------------------------------------------------ the transport completes
\* the response headers arrive: fetch() resolves with the server's status
TransportResolve(i) ==
    /\ transport[i].state = "pending"
    /\ ~MicrotaskPending
    /\ transport' = [transport EXCEPT ![i] =
           [@ EXCEPT !.state = "resolved", !.statusCode = server[i],
                     !.settledAt = now]]
    /\ UNCHANGED << now, args, server, pc, startTime, timeoutId, armedAt,
                    controller, combinedController, controllerListener,
                    externalAborted, externalListeners, undiciSignal, outcome, existingAborted, guards, timers, options >>

\* a fault of the network itself: fetch() rejects with it
TransportFail(i) ==
    /\ transport[i].state = "pending"
    /\ ~MicrotaskPending
    /\ \E f \in NetworkFaults :
           transport' = [transport EXCEPT ![i] =
               [@ EXCEPT !.state = "failed", !.fault = f, !.cause = "network",
                         !.settledAt = now]]
    /\ UNCHANGED << now, args, server, pc, startTime, timeoutId, armedAt,
                    controller, combinedController, controllerListener,
                    externalAborted, externalListeners, undiciSignal, outcome, existingAborted, guards, timers, options >>

\* ----------------------------------- continuation of the try body (245-293)
StatusOutcome(req, urlString, t) ==
    LET kind == Classify(req.statusCode)
    IN  [NoOutcome EXCEPT
            !.st = "fulfilled", !.kind = kind, !.code = req.statusCode,
            !.url = urlString, !.at = t,
            !.context = IF kind = "success" THEN {}
                        ELSE StatusContext(Response(req.statusCode)),
            !.response = IF kind = "success"
                         THEN ReturnResponse(Response(req.statusCode))
                         ELSE NoResponse,
            !.message = StatusMessage(kind, urlString)]

HandleResponse(i) ==
    /\ pc[i] = "await"
    /\ transport[i].state = "resolved"
    /\ timeoutId' = [timeoutId EXCEPT ![i] = ClearOnSuccess(@)]
    /\ outcome' = [outcome EXCEPT ![i] =
           StatusOutcome(transport[i], UrlString(args[i].url), now)]
    /\ pc' = [pc EXCEPT ![i] = "done"]
    /\ UNCHANGED << now, args, server, startTime, armedAt, controller,
                    combinedController, controllerListener, externalAborted,
                    externalListeners, undiciSignal, transport, existingAborted, guards, timers, options >>

\* ------------------------------------------------ the catch block (295-318)
TimeoutOutcome(req, urlString, start, t) ==
    LET elapsedTime == ElapsedTime(t, start)
    IN  [NoOutcome EXCEPT
            !.st = "fulfilled", !.kind = "timeout",
            !.url = urlString, !.timeout = req.timeout,
            !.elapsedTime = elapsedTime,
            !.method = MethodOrGet(req.method), !.at = t,
            !.context = TimeoutContext(urlString, req.timeout, elapsedTime,
                                       req.method),
            !.message = TimeoutMessage(urlString, req.timeout, elapsedTime)]

\* the fault wrapped in a new error
Rethrow_Wrapped(error, t) ==
    [NoOutcome EXCEPT !.st = "rejected", !.kind = "fault",
                      !.fault = "Error: request failed", !.at = t]

\* line 317: throw error
Rethrow(error, t) ==
    [NoOutcome EXCEPT !.st = "rejected", !.kind = "fault", !.fault = error,
                      !.at = t, !.message = << error >>]

HandleError(i) ==
    /\ pc[i] = "await"
    /\ transport[i].state = "failed"
    /\ timeoutId' = [timeoutId EXCEPT ![i] = ClearOnError(@)]
    /\ outcome' = [outcome EXCEPT ![i] =
           IF CatchIsTimeout(controller[i], args[i].timeout)
           THEN TimeoutOutcome(args[i], UrlString(args[i].url), startTime[i], now)
           ELSE Rethrow(transport[i].fault, now)]
    /\ pc' = [pc EXCEPT ![i] = "done"]
    /\ UNCHANGED << now, args, server, startTime, armedAt, controller,
                    combinedController, controllerListener, externalAborted,
                    externalListeners, undiciSignal, transport, existingAborted, guards, timers, options >>

\* ------------------------------------------- the caller inspects the result
\* const result = await gotcha(...) (or the error caught from it), then
\* wasRedirected(result), wasClientError(result), wasServerError(result),
\* timedOut(result) and isOk(result)
Inspect(i) ==
    /\ pc[i] = "done"
    /\ ~guards[i].inspected
    /\ LET val == SettledValue(outcome[i])
       IN  guards' = [guards EXCEPT ![i] =
               [inspected |-> TRUE, val |-> val,
                wasRedirected |-> wasRedirected(val),
                wasClientError |-> wasClientError(val),
                wasServerError |-> wasServerError(val),
                timedOut |-> timedOut(val),
                isOk |-> isOk(val)]]
    /\ UNCHANGED << now, args, server, pc, startTime, timeoutId, armedAt,
                    controller, combinedController, controllerListener,
                    externalAborted, externalListeners, undiciSignal, transport,
                    outcome, existingAborted, timers, options >>

\* ------------------------------------------------------------------ time
\* one millisecond passes; not beyond the latest due time of an armed timer
Tick ==
    /\ now < MaxTime
    /\ \A i \in AllCalls : ~TimerOverdue(i)
    /\ now' = now + 1
    /\ UNCHANGED << args, server, pc, startTime, timeoutId, armedAt, controller,
                    combinedController, controllerListener, externalAborted,
                    externalListeners, undiciSignal, transport, outcome,
                    existingAborted, guards, timers, options >>

\* ------------------------------------------------------------ specification
Next ==
    \/ \E i \in AllCalls : Gotcha(i)
    \/ \E i \in AllCalls : TimerFire(i)
    \/ ExternalAbort
    \/ \E i \in AllCalls : TransportResolve(i)
    \/ \E i \in AllCalls : TransportFail(i)
    \/ \E i \in AllCalls : HandleResponse(i)
    \/ \E i \in AllCalls : HandleError(i)
    \/ \E i \in AllCalls : Inspect(i)
    \/ Tick

Spec == Init /\ [][Next]_vars

\* ------------------------------------------------------ concurrent calls
\* two calls running at once: each with its own timeout (none, 1 ms or 2 ms)
\* and its own response status (200 for the first, 503 for the second), the
\* second possibly with the caller's signal
ConcArgs ==
    [url : {StringUrl}, timeout : {Undefined, Num(1), Num(2)},
     signal : {"undefined", "external"}, method : {"undefined"}]

InitConc ==
    /\ args \in [AllCalls -> ConcArgs]
    /\ args[1].signal = "undefined"
    /\ server = << 200, 503 >>
    /\ InitCalls(AllCalls)

SpecConc == InitConc /\ [][Next]_vars

\* two calls given the same AbortSignal, each with a 1 ms or 2 ms timeout and
\* answered 200 or 503
SharedArgs ==
    [url : {StringUrl}, timeout : {Num(1), Num(2)}, signal : {"external"},
     method : {"undefined"}]

InitShared ==
    /\ args \in [AllCalls -> SharedArgs]
    /\ server \in [AllCalls -> {200, 503}]
    /\ InitCalls(AllCalls)

SpecShared == InitShared /\ [][Next]_vars

\* ------------------------------------------------- a server that may stay silent
\* one call, with no timeout, a disabled one, a short one or the largest one,
\* with or without the caller's signal.  The clock advances, the event loop
\* runs the callback of a due timer and the continuation of a settled
\* promise; nothing obliges the server to answer or the caller to abort.
LiveArgs ==
    [url : {StringUrl},
     timeout : {Undefined, Num(0), Num(1), Num(2), Frac(1, 5), Num(TimerMax)},
     signal : {"undefined", "external"}, method : {"undefined"}]

InitLive ==
    /\ args \in [AllCalls -> LiveArgs]
    /\ server \in [AllCalls -> {200, 503}]
    /\ InitCalls(CallIds)

EventLoopRuns ==
    /\ WF_vars(Tick)
    /\ \A i \in AllCalls :
           /\ WF_vars(TimerFire(i))
           /\ WF_vars(HandleResponse(i))
           /\ WF_vars(HandleError(i))

SpecLive == InitLive /\ [][Next]_vars /\ EventLoopRuns

\* ================================================================ claims
\* calls that have entered request()
Started(i) == pc[i] \in {"await", "done"} /\ transport[i].invocations > 0
Done(i)    == pc[i] = "done"

\* C1: every status code c the transport resolved with is returned as the
\* success value with statusCode c when c < 300, as a redirection with code c
\* when 300 <= c < 400, as a client-error with code c when 400 <= c < 500 and
\* as a server-error with code c when c >= 500.
C1_StatusRanges ==
    \A i \in AllCalls :
        (Done(i) /\ transport[i].state = "resolved") =>
            LET c == transport[i].statusCode
                o == outcome[i]
            IN  /\ c = server[i]
                /\ o.st = "fulfilled"
                /\ o.code = c
                /\ (c < 300) => o.kind = "success"
                /\ (300 <= c /\ c < 400) => o.kind = "redirection"
                /\ (400 <= c /\ c < 500) => o.kind = "client-error"
                /\ (c >= 500) => o.kind = "server-error"

\* a response with status 600 has been returned as a server-error
C1_Witness ==
    \E i \in AllCalls :
        /\ Done(i) /\ transport[i].state = "resolved"
        /\ transport[i].statusCode = 600
        /\ outcome[i].kind = "server-error"

\* C2: when the transport resolved with a status code, or failed because the
\* call's own timer fired, the promise of gotcha() is fulfilled with one of
\* the five outcome kinds and is not rejected.
C2_ReturnedNotThrown ==
    \A i \in AllCalls :
        ( /\ Done(i)
          /\ \/ transport[i].state = "resolved"
             \/ transport[i].state = "failed" /\ transport[i].cause = "internal" )
        => /\ outcome[i].st = "fulfilled"
           /\ outcome[i].kind \in {"success", "redirection", "client-error",
                                   "server-error", "timeout"}
           /\ outcome[i].fault = "none"

\* the transport was aborted by the call's timer and the promise is fulfilled
C2_Witness ==
    \E i \in AllCalls :
        /\ Done(i)
        /\ transport[i].state = "failed" /\ transport[i].cause = "internal"
        /\ outcome[i].st = "fulfilled"

\* t rounded down and up to whole milliseconds
C3_Floor(t) == t.v
C3_Ceil(t)  == IF t.fr > 0 THEN t.v + 1 ELSE t.v

\* the transport had not completed when the clock read more than t ms (t
\* rounded up) after the call started
C3_NotCompletedWithin(i) ==
    LET t  == C3_Ceil(args[i].timeout)
        tr == transport[i]
    IN  \/ tr.state = "pending" /\ now - startTime[i] > t
        \/ tr.state \in {"resolved", "failed"} /\ tr.cause # "internal"
              /\ tr.settledAt - startTime[i] > t
        \/ tr.cause = "internal"

C3_Applies(i) ==
    /\ Started(i)
    /\ args[i].timeout.k = "num" /\ args[i].timeout.ex = 0
    /\ args[i].timeout.v > 0
    /\ C3_NotCompletedWithin(i)

C4_Disabled(t) ==
    \/ t.k \in {"undef", "nan", "inf"}
    \/ t.k = "num" /\ (t.v <= 0 \/ t.ex > 0)

C6_CompletionBeatsTimer ==
    \A i \in AllCalls :
        (Started(i) /\ controller[i] # "undefined"
                    /\ transport[i].state = "resolved") =>
            /\ timeoutId[i] # "fired"
            /\ controller[i] = "live"
            /\ Done(i) =>
                  /\ timeoutId[i] = "cleared"
                  /\ outcome[i].kind # "timeout"
                  /\ outcome[i].code = server[i]
                  /\ outcome[i].kind =
                        (IF server[i] < 300 THEN "success"
                         ELSE IF server[i] < 400 THEN "redirection"
                         ELSE IF server[i] < 500 THEN "client-error"
                         ELSE "server-error")

\* the response arrived in the very millisecond the timer of a timeout-1 call
\* was due, and the call returned it with the timer cancelled
C6_Witness ==
    \E i \in AllCalls :
        /\ Done(i)
        /\ args[i].timeout = Num(1)
        /\ transport[i].state = "resolved"
        /\ transport[i].settledAt - startTime[i] = 1
        /\ timeoutId[i] = "cleared"
        /\ outcome[i].kind = "success"

\* C7: when the call's timer fires before the transport has completed, the
\* transport call is aborted and fails, it is the only transport call made,
\* and the call resolves to a timeout error whatever status the server would
\* have answered with.
C7_TimerBeatsCompletion ==
    \A i \in AllCalls :
        timeoutId[i] = "fired" =>
            /\ transport[i].state = "failed"
            /\ transport[i].fault = AbortFault
            /\ transport[i].cause = "internal"
            /\ transport[i].invocations = 1
            /\ Done(i) =>
                  /\ outcome[i].st = "fulfilled"
                  /\ outcome[i].kind = "timeout"

\* a call whose server would have answered 503, made with an external signal,
\* resolved to a timeout error after its timer fired
C7_Witness ==
    \E i \in AllCalls :
        /\ Done(i)
        /\ timeoutId[i] = "fired"
        /\ server[i] = 503
        /\ args[i].signal = "external"
        /\ outcome[i].kind = "timeout"

\* C8: a transport failure not caused by the call's internal timeout signal
\* (a network fault, an abort of the caller's signal, any failure without a
\* timeout) makes the promise reject with that same fault value.
C8_FaultRethrown ==
    \A i \in AllCalls :
        (Done(i) /\ transport[i].state = "failed"
                 /\ transport[i].cause \in {"network", "external"}) =>
            /\ outcome[i].st = "rejected"
            /\ outcome[i].kind = "fault"
            /\ outcome[i].fault = transport[i].fault
            /\ outcome[i].fault \in NetworkFaults \cup {AbortFault}

\* a call with an armed timer rejected with the connection-refused fault
C8_Witness ==
    \E i \in AllCalls :
        /\ Done(i)
        /\ controller[i] = "live"
        /\ transport[i].cause = "network"
        /\ outcome[i].st = "rejected"
        /\ outcome[i].fault = "ECONNREFUSED"

\* C9: a timeout error is returned only when the transport failed because the
\* call's internal timeout signal fired; a fault of any other cause is never
\* reported as kind timeout.
C9_TimeoutOnlyFromTimer ==
    \A i \in AllCalls :
        outcome[i].kind = "timeout" =>
            /\ transport[i].state = "failed"
            /\ transport[i].cause = "internal"
            /\ timeoutId[i] = "fired"
            /\ controller[i] = "aborted"

\* a timeout error returned although the caller's signal aborted as well,
\* after the timer had fired and before the catch block ran
C9_Witness ==
    \E i \in AllCalls :
        /\ Done(i)
        /\ outcome[i].kind = "timeout"
        /\ args[i].signal = "external"
        /\ externalAborted

\* C10 as stated: a call made with an already aborted external signal does
\* not invoke the transport at all.
C10_TransportNotInvoked ==
    \A i \in AllCalls :
        (pc[i] \in {"await", "done"} /\ existingAborted[i]) =>
            transport[i].invocations = 0

\* C10 amended: a call made with an already aborted external signal invokes
\* the transport exactly once, with a signal that is already aborted; the
\* transport fails at once with its abort fault, and the call rejects with
\* that fault.
C10_PreAbortedFailsAtOnce ==
    \A i \in AllCalls :
        (pc[i] \in {"await", "done"} /\ existingAborted[i]) =>
            /\ transport[i].invocations = 1
            /\ transport[i].sawAborted
            /\ transport[i].state = "failed"
            /\ transport[i].fault = AbortFault
            /\ transport[i].cause = "external"
            /\ transport[i].settledAt = startTime[i]
            /\ timeoutId[i] # "armed"
            /\ Done(i) =>
                  /\ outcome[i].st = "rejected"
                  /\ outcome[i].fault = AbortFault

\* a call with a valid timeout and an already aborted signal has rejected
C10_Witness ==
    \E i \in AllCalls :
        /\ Done(i)
        /\ existingAborted[i]
        /\ args[i].timeout = Num(2)
        /\ outcome[i].st = "rejected"

\* C11: a call made with a valid positive timeout and an external signal that
\* is already aborted rejects: it resolves neither to a success value nor to
\* a status or timeout error, its internal signal never fires, and it leaves
\* no pending timer behind.
C11_PreAbortedWithTimeoutRejects ==
    \A i \in AllCalls :
        ( /\ pc[i] \in {"await", "done"}
          /\ existingAborted[i]
          /\ args[i].timeout.k = "num" /\ args[i].timeout.ex = 0
          /\ args[i].timeout.v > 0 )
        => /\ controller[i] = "live"
           /\ timeoutId[i] \notin {"armed", "fired"}
           /\ outcome[i].st # "fulfilled"
           /\ Done(i) =>
                 /\ outcome[i].st = "rejected"
                 /\ outcome[i].kind = "fault"
                 /\ timeoutId[i] = "cleared"

\* a call with timeout 1 and a pre-aborted signal rejected with the abort
\* fault, 2 ms after the caller had aborted the signal
C11_Witness ==
    \E i \in AllCalls :
        /\ Done(i)
        /\ existingAborted[i]
        /\ args[i].timeout = Num(1)
        /\ outcome[i].st = "rejected"
        /\ outcome[i].fault = AbortFault
        /\ timeoutId[i] = "cleared"
        /\ startTime[i] = 2

\* C12: calls are independent.  With two calls running concurrently, each
\* with its own timeout, a step taken for one call (its timer firing, its
\* timer being cleared, its transport settling, its continuation) leaves the
\* other call's timer, controllers, transport and outcome as they were; a
\* call resolves to a timeout error exactly when its own timer fired before
\* its transport completed, no earlier than its own timeout, and every other
\* call whose transport answered resolves by its own status code, answered
\* no later than its own timeout.
C12_OwnState(i) ==
    << timeoutId[i], controller[i], combinedController[i], transport[i],
       outcome[i], pc[i] >>

C12_OwnStep(i) ==
    \/ pc[i] = "ready" /\ pc'[i] # "ready"
    \/ TimerDue(i) /\ timeoutId'[i] = "fired"
    \/ transport[i].state = "pending" /\ ~MicrotaskPending
          /\ transport'[i].state \in {"resolved", "failed"}
          /\ transport'[i].cause \in {"none", "network"}
    \/ pc[i] = "await" /\ transport[i].state # "pending" /\ pc'[i] = "done"
    \/ args[i].signal = "external" /\ ~externalAborted /\ externalAborted'

C12_Outcome(i) ==
    (Done(i) /\ transport[i].cause \in {"none", "internal"}) =>
        LET t == args[i].timeout
            o == outcome[i]
        IN  /\ o.st = "fulfilled"
            /\ (o.kind = "timeout") <=> (transport[i].cause = "internal")
            /\ (o.kind = "timeout") =>
                  /\ IsValidTimeout(t)
                  /\ timeoutId[i] = "fired"
                  /\ o.timeout = t
                  /\ o.elapsedTime >= t.v
            /\ (o.kind # "timeout") =>
                  /\ o.kind = Classify(server[i]) /\ o.code = server[i]
                  /\ timeoutId[i] \in {"undefined", "cleared"}
                  /\ IsValidTimeout(t) =>
                        transport[i].settledAt - startTime[i] <= t.v

C12_CallsIndependent ==
    /\ [](\A i \in AllCalls : C12_Outcome(i))
    /\ [][\A i \in AllCalls :
             (C12_OwnState(i)' # C12_OwnState(i)) => C12_OwnStep(i)]_vars

\* both calls ran at once; the one with the 1 ms timeout resolved to a
\* timeout error while the other, with a 2 ms timeout, was still waiting and
\* later resolved by its own status 503
C12_Witness ==
    /\ Done(1) /\ Done(2)
    /\ args[1].timeout = Num(1) /\ args[2].timeout = Num(2)
    /\ startTime[1] = startTime[2]
    /\ outcome[1].kind = "timeout" /\ outcome[1].elapsedTime = 1
    /\ outcome[2].kind = "server-error" /\ outcome[2].code = 503
    /\ outcome[2].at > outcome[1].at
    /\ timeoutId[1] = "fired" /\ timeoutId[2] = "cleared"

\* C13: when the timer and the transport completion race (valid timeout, no
\* external signal, no network fault), every interleaving that completes the
\* call fulfils it with exactly one outcome: the status-classified result of
\* the response when the response was handled first (the timer is then
\* cleared and the controller never aborts), or a timeout error when the
\* timer callback ran first (the response is then never handled).  The call
\* never rejects, and a settled outcome never changes.
C13_Racing(i) ==
    /\ IsValidTimeout(args[i].timeout)
    /\ args[i].signal = "undefined"
    /\ transport[i].cause # "network"

C13_ByResponse(i) ==
    /\ transport[i].state = "resolved"
    /\ outcome[i].kind = Classify(transport[i].statusCode)
    /\ outcome[i].code = transport[i].statusCode
    /\ timeoutId[i] = "cleared" /\ controller[i] = "live"

C13_ByTimer(i) ==
    /\ transport[i].state = "failed" /\ transport[i].cause = "internal"
    /\ outcome[i].kind = "timeout"
    /\ timeoutId[i] = "fired" /\ controller[i] = "aborted"

C13_RaceHasOneOutcome ==
    /\ [](\A i \in AllCalls : (Done(i) /\ C13_Racing(i)) =>
             /\ outcome[i].st = "fulfilled"
             /\ C13_ByResponse(i) # C13_ByTimer(i))
    /\ [][\A i \in AllCalls : Done(i) => outcome'[i] = outcome[i]]_vars

\* two calls started together with the same 1 ms timeout, both transports
\* still pending when the timers fall due: for call 1 the response was
\* handled first, for call 2 the timer callback
C13_Witness ==
    /\ Done(1) /\ Done(2)
    /\ C13_Racing(1) /\ C13_Racing(2)
    /\ args[1].timeout = Num(1) /\ args[2].timeout = Num(1)
    /\ startTime[1] = startTime[2]
    /\ transport[1].settledAt = startTime[1] + 1
    /\ transport[2].settledAt = startTime[2] + 1
    /\ C13_ByResponse(1) /\ outcome[1].at = startTime[1] + 1
    /\ C13_ByTimer(2) /\ outcome[2].elapsedTime = 1

\* C14: gotcha() called with the Configure shape { foo, bar } throws an Error
\* whose message is 'Configure type not yet implemented', at the call itself,
\* without invoking the transport, creating a controller or arming a timer.
C14_ConfigureThrows ==
    \A i \in AllCalls :
        (args[i].url = ConfigureArg /\ pc[i] \notin {"ready", "unused"}) =>
            /\ Done(i)
            /\ outcome[i].st = "thrown"
            /\ outcome[i].fault = "Configure type not yet implemented"
            /\ transport[i] = IdleTransport
            /\ timeoutId[i] = "undefined"
            /\ controller[i] = "undefined"
            /\ combinedController[i] = "undefined"
            /\ undiciSignal[i] = "undefined"

\* gotcha({ foo: 1, bar: 2 }, { timeout: 1, signal, method: "POST" }) has
\* thrown at time 1
C14_Witness ==
    \E i \in AllCalls :
        /\ Done(i)
        /\ args[i].url = ConfigureArg
        /\ args[i].timeout = Num(1)
        /\ args[i].signal = "external"
        /\ args[i].method = "POST"
        /\ outcome[i].st = "thrown"
        /\ outcome[i].at = 1
        /\ transport[i].invocations = 0

\* C15: gotcha() forwards (url, options) to request() and returns its result
\* whenever the first argument is a string, a URL instance or a structured
\* host/path object (an object whose fields are among hostname, port, path,
\* pathname, origin, search); for any other first argument it takes the
\* reserved alternate path and throws.
C15_IsStructured(url) ==
    /\ url.kind = "object"
    /\ url.obj # {}
    /\ \A p \in url.obj : p.key \in UrlObjectKeys
    /\ \A p \in url.obj : p.key = "port" => p.t \in {"number", "string"}
    /\ \A p \in url.obj : p.key # "port" => p.t = "string"

C15_IsRequestShape(url) ==
    url.kind = "string" \/ url.kind = "URL" \/ C15_IsStructured(url)

C15_DispatchByShape ==
    \A i \in AllCalls :
        pc[i] \in {"await", "done"} =>
            IF C15_IsRequestShape(args[i].url)
            THEN transport[i].invocations = 1 /\ outcome[i].st # "thrown"
            ELSE transport[i].invocations = 0 /\ outcome[i].st = "thrown"

\* C16: every redirection, client-error and server-error value carries a
\* context with all of headers, status code, body stream, opaque value,
\* trailers and the request URL, each equal to the corresponding field of the
\* transport response (the URL to the request's target).
C16_StatusError(i) ==
    Done(i) /\ outcome[i].kind \in {"redirection", "client-error", "server-error"}

C16_ContextComplete ==
    \A i \in AllCalls :
        C16_StatusError(i) =>
            LET res == Response(transport[i].statusCode)
                ctx == outcome[i].context
            IN  /\ << "headers", res.headers >> \in ctx
                /\ << "code", ToString(server[i]) >> \in ctx
                /\ << "body", res.body >> \in ctx
                /\ << "opaque", res.opaque >> \in ctx
                /\ << "trailers", res.trailers >> \in ctx
                /\ << "url", UrlString(args[i].url) >> \in ctx

\* C17: every timeout error carries context {url, timeout, elapsedTime,
\* method}: url is the canonical target string of the call's first argument,
\* timeout the configured value, elapsedTime the time at which the catch
\* block ran minus the time at which request() started, and method the
\* caller's method, or "GET" when the caller gave none.
C17_Value(ctx, key) == (CHOOSE p \in ctx : p[1] = key)[2]

\* a configured timeout as text: 2 as "2", 1.5 as "1.5"
C17_Text(t) ==
    IF t.fr = 0 THEN ToString(t.v) ELSE ToString(t.v) \o "." \o ToString(t.fr)

\* the canonical target string: a string as it is, a URL instance as its
\* href, a structured form as hostname:port/path with port 80 by default
C17_Target(url) ==
    IF url.kind = "object"
    THEN PropText(url.obj, "hostname") \o ":"
            \o (IF PropType(url.obj, "port") = "undefined"
                THEN "80" ELSE PropText(url.obj, "port"))
            \o "/" \o PropText(url.obj, "path")
    ELSE url.str

C17_TimeoutContext ==
    \A i \in AllCalls :
        (Done(i) /\ outcome[i].kind = "timeout") =>
            LET ctx == outcome[i].context
                url == args[i].url
            IN  /\ \A key \in {"url", "timeout", "elapsedTime", "method"} :
                       Cardinality({p \in ctx : p[1] = key}) = 1
                /\ C17_Value(ctx, "url") = C17_Target(url)
                /\ C17_Value(ctx, "timeout") = C17_Text(args[i].timeout)
                /\ args[i].timeout.ex = 0 /\ args[i].timeout.k = "num"
                /\ C17_Value(ctx, "elapsedTime") =
                       ToString(outcome[i].at - startTime[i])
                /\ outcome[i].at >= transport[i].settledAt
                /\ C17_Value(ctx, "method") =
                       (IF args[i].method = "undefined" THEN "GET"
                        ELSE args[i].method)

\* gotcha({ hostname: "hostname", path: "path" }, { timeout: 2 }), called at
\* time 1 without a method, resolved at time 3 to a timeout error with
\* context { url: "hostname:80/path", timeout: 2, elapsedTime: 2, method: "GET" }
C17_Witness ==
    \E i \in AllCalls :
        /\ Done(i) /\ outcome[i].kind = "timeout"
        /\ args[i].url = KeyNamedObject
        /\ args[i].method = "undefined"
        /\ startTime[i] = 1
        /\ outcome[i].context =
               { << "url", "hostname:80/path" >>, << "timeout", "2" >>,
                 << "elapsedTime", "2" >>, << "method", "GET" >>,
                 << "library", "gotcha" >> }

\* C18: every error value's message embeds the request target string.  A
\* redirection's message is 'A redirection took place while requesting the
\* URL: ' followed by the quoted target, a client-error's 'A client-based
\* network error happened requesting the URL: ' and a server-error's 'A
\* server-based network error happened requesting the URL: ' likewise; a
\* timeout's message gives the elapsed time in ms, the configured timeout in
\* ms and the quoted target, and the elapsed time it gives is
\* context.elapsedTime.
C18_Template(kind) ==
    CASE kind = "redirection" ->
           "A redirection took place while requesting the URL: '"
      [] kind = "client-error" ->
           "A client-based network error happened requesting the URL: '"
      [] kind = "server-error" ->
           "A server-based network error happened requesting the URL: '"

C18_MessagesEmbedTarget ==
    \A i \in AllCalls :
        LET o      == outcome[i]
            target == C17_Target(args[i].url)
        IN  /\ C16_StatusError(i) =>
                  o.message = << C18_Template(o.kind), target, "'." >>
            /\ (Done(i) /\ o.kind = "timeout") =>
                  /\ Len(o.message) = 7
                  /\ o.message[1] = "Request timed out after "
                  /\ o.message[2] = C17_Value(o.context, "elapsedTime")
                  /\ o.message[2] = ToString(o.at - startTime[i])
                  /\ o.message[3] = "ms (limit: "
                  /\ o.message[4] = C17_Text(args[i].timeout)
                  /\ o.message[5] = "ms) while requesting the URL: '"
                  /\ o.message[6] = target
                  /\ o.message[7] = "'."

\* a call with a 1 ms timeout whose catch block ran 2 ms after the start:
\* 'Request timed out after 2ms (limit: 1ms) while requesting the URL:
\* 'http://host/path'.'
C18_Witness ==
    \E i \in AllCalls :
        /\ Done(i) /\ outcome[i].kind = "timeout"
        /\ args[i].url = UrlInstance
        /\ outcome[i].message =
               << "Request timed out after ", "2", "ms (limit: ", "1",
                  "ms) while requesting the URL: '", "http://host/path", "'." >>
        /\ << "elapsedTime", "2" >> \in outcome[i].context

\* C19: each of wasRedirected, wasClientError, wasServerError and timedOut,
\* applied to the settled value of a call, returns true if and only if that
\* value is the error value of the predicate's own kind: false for the
\* success value, for an error of any other kind and for a re-thrown or
\* thrown Error.  Applying the predicates changes nothing but their results.
C19_IsKind(i, k) == outcome[i].st = "fulfilled" /\ outcome[i].kind = k

C19_Others ==
    << now, args, server, pc, startTime, timeoutId, armedAt, controller,
       combinedController, controllerListener, externalAborted,
       externalListeners, undiciSignal, transport, outcome, existingAborted,
       timers, options >>

C19_KindPredicates ==
    /\ [](\A i \in AllCalls : guards[i].inspected =>
             /\ guards[i].wasRedirected  <=> C19_IsKind(i, "redirection")
             /\ guards[i].wasClientError <=> C19_IsKind(i, "client-error")
             /\ guards[i].wasServerError <=> C19_IsKind(i, "server-error")
             /\ guards[i].timedOut       <=> C19_IsKind(i, "timeout"))
    /\ [][guards' # guards => C19_Others' = C19_Others]_vars

\* the guards applied to the server-error returned for a 503: wasServerError
\* alone is true
C19_Witness ==
    \E i \in AllCalls :
        /\ guards[i].inspected
        /\ outcome[i].kind = "server-error" /\ outcome[i].code = 503
        /\ guards[i].wasServerError
        /\ ~guards[i].wasRedirected
        /\ ~guards[i].wasClientError
        /\ ~guards[i].timedOut

\* C20 (as stated): isOk(v) is true if and only if v is not one of the four
\* error kinds.
C20_IsOkIffNotOfFourKinds ==
    \A i \in AllCalls :
        guards[i].inspected =>
            (guards[i].isOk <=>
                ~\E k \in {"redirection", "client-error", "server-error", "timeout"} :
                     C19_IsKind(i, k))

\* C20 (amended): isOk(v) is true if and only if v is not an Error: false for
\* the four error kinds and for every other Error, such as a re-thrown
\* transport fault; for every value gotcha() resolves to, isOk is true
\* exactly for the success value.
C20_IsOkIffNotError ==
    \A i \in AllCalls :
        guards[i].inspected =>
            /\ guards[i].isOk <=> C19_IsKind(i, "success")
            /\ outcome[i].st \in {"rejected", "thrown"} => ~guards[i].isOk
            /\ guards[i].isOk =>
                  /\ ~guards[i].wasRedirected /\ ~guards[i].wasClientError
                  /\ ~guards[i].wasServerError /\ ~guards[i].timedOut

\* isOk applied to the ECONNREFUSED fault caught from a call: false, although
\* the fault is none of the four kinds
C20_Witness ==
    \E i \in AllCalls :
        /\ guards[i].inspected
        /\ outcome[i].st = "rejected" /\ outcome[i].fault = "ECONNREFUSED"
        /\ ~guards[i].isOk
        /\ ~guards[i].wasRedirected /\ ~guards[i].wasClientError
        /\ ~guards[i].wasServerError /\ ~guards[i].timedOut

\* C21: classification is a pure function of the status code.  Two calls
\* answered with the same status code get the same kind, whatever happened
\* before each of them (the other call's success, fault or timeout, an
\* aborted signal), and classifying a call's status code again in any later
\* state yields the kind the call was given.
C21_Classified(i) == Done(i) /\ transport[i].state = "resolved"

C22_ValidTimeout(t) == t.k = "num" /\ t.ex = 0 /\ 0 < t.v /\ t.v <= TimerMax

C22_Entered(i) ==
    pc[i] \in {"await", "done"} /\ outcome[i].st # "thrown"

C23_InRange(t) ==
    /\ t.k = "num" /\ t.ex = 0 /\ t.hi = 0
    /\ (t.v > 0 \/ (t.v = 0 /\ t.fr > 0))
    /\ (t.v < TimerMax \/ (t.v = TimerMax /\ t.fr = 0))

C24_Both(i) ==
    /\ pc[i] \in {"await", "done"} /\ outcome[i].st # "thrown"
    /\ C22_ValidTimeout(args[i].timeout)
    /\ args[i].signal = "external"

C24_EffectiveSignal ==
    \A i \in AllCalls :
        C24_Both(i) =>
            /\ undiciSignal[i] = "combined"
            /\ (combinedController[i] = "aborted")
                  <=> (timeoutId[i] = "fired" \/ externalAborted)
            /\ (timeoutId[i] = "fired") <=> (controller[i] = "aborted")
            /\ (transport[i].state = "pending") => combinedController[i] = "live"

\* the timer of a call given both signals has just fired: the combined signal
\* is aborted and the transport has failed, the external signal is not aborted
C24_Witness ==
    \E i \in AllCalls :
        /\ C24_Both(i) /\ pc[i] = "await"
        /\ timeoutId[i] = "fired"
        /\ ~externalAborted
        /\ combinedController[i] = "aborted"
        /\ transport[i].state = "failed" /\ transport[i].cause = "internal"

\* C25: with a valid timeout and an external signal, the outcome is
\* attributed to the source that fired first.  When the external signal
\* aborted the transport (at the call or while it was pending), the timer is
\* cleared at once, the internal signal never fires, and the call rejects
\* with the transport's abort fault, never resolving to a timeout error; when
\* the timer fired first, the call resolves to a timeout error, also when the
\* external signal aborts afterwards.
C25_ExternalFirst(i) == C24_Both(i) /\ transport[i].cause = "external"
C25_TimerFirst(i)    == C24_Both(i) /\ transport[i].cause = "internal"

C25_FirstSourceDecides ==
    \A i \in AllCalls :
        /\ C25_ExternalFirst(i) =>
              /\ externalAborted
              /\ timeoutId[i] = "cleared"
              /\ controller[i] = "live"
              /\ transport[i].fault = AbortFault
              /\ Done(i) =>
                    /\ outcome[i].st = "rejected"
                    /\ outcome[i].fault = AbortFault
                    /\ outcome[i].kind # "timeout"
        /\ C25_TimerFirst(i) =>
              /\ timeoutId[i] = "fired"
              /\ controller[i] = "aborted"
              /\ Done(i) =>
                    /\ outcome[i].st = "fulfilled"
                    /\ outcome[i].kind = "timeout"

\* the timer fired while the transport was pending, the external signal
\* aborted after that, and the call then resolved to a timeout error
C25_Witness ==
    \E i \in AllCalls :
        /\ Done(i) /\ C25_TimerFirst(i)
        /\ externalAborted /\ ~existingAborted[i]
        /\ outcome[i].kind = "timeout"
        /\ guards[i] = NotInspected

\* C26: with a valid timeout and an external signal that is already aborted
\* when the call is made, the combined signal is aborted and the timer is
\* cleared during set-up, before the transport is invoked: the transport is
\* handed the combined signal already aborted, and is never pending on a
\* signal that is not aborted.
C26_PreAborted(i) ==
    /\ pc[i] \in {"await", "done"}
    /\ existingAborted[i]
    /\ IsValidTimeout(args[i].timeout)

C26_AbortedDuringSetup ==
    \A i \in AllCalls :
        C26_PreAborted(i) =>
            /\ undiciSignal[i] = "combined"
            /\ combinedController[i] = "aborted"
            /\ timers[i] = 1
            /\ timeoutId[i] = "cleared"
            /\ i \notin externalListeners
            /\ transport[i].invocations = 1
            /\ transport[i].sawAborted
            /\ transport[i].state \notin {"pending", "resolved"}
            /\ transport[i].settledAt = startTime[i]

\* the call has just been set up with the largest valid timeout and a signal
\* aborted beforehand: it awaits a transport that failed at once
C26_Witness ==
    \E i \in AllCalls :
        /\ pc[i] = "await"
        /\ C26_PreAborted(i)
        /\ args[i].timeout = Num(TimerMax)
        /\ transport[i].state = "failed"
        /\ now = startTime[i]

\* the signal the transport is to receive: the internal one when a timer is
\* armed and the caller gave none, the combined one when both exist, the
\* caller's own (or none) when no timer is armed
C27_Signal(i) ==
    IF timers[i] > 0
    THEN (IF args[i].signal = "external" THEN "combined" ELSE "controller")
    ELSE args[i].signal

\* an options object with its signal property set to sig
C27_WithSignal(opts, sig) ==
    { p \in opts : p[1] # "signal" }
        \cup (IF sig = "undefined" THEN {} ELSE { << "signal", sig >> })

C27_Invoked(i) == transport[i].invocations > 0

\* C27 as stated: the transport is invoked with the caller's target and with
\* every field of the caller's options unchanged, plus the cancellation signal.
C27_AllOptionsForwarded ==
    \A i \in AllCalls :
        C27_Invoked(i) =>
            /\ transport[i].target = args[i].url
            /\ transport[i].options =
                   C27_WithSignal(CallerOptions(args[i]), C27_Signal(i))

\* C27 amended: the transport is invoked once, with the caller's target as
\* given and with the caller's options without their `timeout` property, all
\* other fields unchanged, plus the cancellation signal: the internal signal
\* when a timer is armed and no external signal was given, the combined
\* signal when both exist, and the caller's own signal when no timer is armed.
C27_OptionsWithoutTimeout ==
    \A i \in AllCalls :
        C27_Invoked(i) =>
            /\ transport[i].invocations = 1
            /\ transport[i].target = args[i].url
            /\ transport[i].options =
                   C27_WithSignal(
                       { p \in CallerOptions(args[i]) : p[1] # "timeout" },
                       C27_Signal(i))
            /\ undiciSignal[i] = C27_Signal(i)

\* a POST with timeout 1 and an external signal reached the transport with
\* the method and the combined signal, and nothing else
C27_Witness ==
    \E i \in AllCalls :
        /\ C27_Invoked(i)
        /\ args[i].timeout = Num(1)
        /\ args[i].method = "POST"
        /\ args[i].signal = "external"
        /\ transport[i].options =
               { << "method", "POST" >>, << "signal", "combined" >> }
        /\ transport[i].state = "pending"

\* the signal the call created and handed to the transport is aborted
C28_OwnSignalAborted(i) ==
    \/ undiciSignal[i] = "controller" /\ controller[i] = "aborted"
    \/ undiciSignal[i] = "combined" /\ combinedController[i] = "aborted"

\* C28: once a call has resolved or rejected, no cancellation set up by that
\* call fires later: the signal the call created and handed to the transport
\* is not aborted after the call has completed, neither by the call's timer
\* nor by a listener the call registered.
C28_NoLateCancellation ==
    [][ \A i \in AllCalls :
            (Done(i) /\ ~C28_OwnSignalAborted(i)) => ~C28_OwnSignalAborted(i)' ]_vars

\* C29: after a call with a valid timeout and an external signal has
\* completed, its abort listener is no longer registered on the caller's
\* signal: completed calls sharing one external signal that never aborts
\* leave no listener on it.
C29_NoListenerAfterCompletion ==
    \A i \in AllCalls : Done(i) => i \notin externalListeners

\* C30: the canonical target string request() derives for messages and
\* context is the string itself for a string target, the href for a URL
\* instance, and hostname:port/path for a structured host/path object, with
\* port 80 when the object has none; it is never empty for such an object.
C30_CanonicalTarget ==
    \A i \in AllCalls :
        (pc[i] \in {"await", "done"} /\ C15_IsRequestShape(args[i].url)) =>
            LET url == args[i].url
            IN  /\ UrlString(url) = C17_Target(url)
                /\ C15_IsStructured(url) => UrlString(url) # ""

\* C31: a success outcome is the transport's response itself: for a status
\* below 300 the value the call resolves to is the very response object the
\* transport produced, with the same status code and headers and its body
\* stream unread; nothing is wrapped, copied or consumed.
C31_Success(i) == Done(i) /\ outcome[i].kind = "success"

C31_ResponsePassedThrough ==
    \A i \in AllCalls :
        /\ C31_Success(i) =>
              /\ transport[i].state = "resolved"
              /\ transport[i].statusCode = server[i]
              /\ server[i] < 300
              /\ outcome[i].response = Response(server[i])
              /\ outcome[i].response.ref = "res"
              /\ ~outcome[i].response.bodyUsed
              /\ outcome[i].context = {}
        /\ (Done(i) /\ ~C31_Success(i)) => outcome[i].response = NoResponse

\* a call with a timeout answered 299 before its timer was due resolved to
\* the response
C31_Witness ==
    \E i \in AllCalls :
        /\ C31_Success(i)
        /\ server[i] = 299
        /\ timeoutId[i] = "cleared"
        /\ outcome[i].response.statusCode = 299

\* C32: request() never mutates the caller's options object: after any call,
\* with or without a timeout, with or without an external signal, on any
\* exit path, the object still holds the fields the caller gave it, the
\* original timeout and the original signal included; the signal of the
\* call is installed on a private copy.
C32_OptionsUntouched ==
    /\ [] \A i \in AllCalls :
           /\ options[i] = CallerOptions(args[i])
           /\ (args[i].signal = "external") <=> << "signal", "external" >> \in options[i]
           /\ \A p \in options[i] : p[1] = "signal" => p[2] = args[i].signal
           /\ (args[i].timeout # Undefined)
                  <=> << "timeout", NumText(args[i].timeout) >> \in options[i]
    /\ [][ options' = options ]_vars

\* a call with timeout 1 and an external signal timed out: the transport got
\* the combined signal and no timeout, the caller's object kept both
C32_Witness ==
    \E i \in AllCalls :
        /\ Done(i) /\ outcome[i].kind = "timeout"
        /\ << "signal", "combined" >> \in transport[i].options
        /\ options[i] = { << "timeout", "1" >>, << "signal", "external" >> }

\* C33: whenever a call returns a success value or a status-classified
\* error, its internal timeout signal has not fired: at the return, and ever
\* after, the call's controller is not aborted and its timer is neither
\* fired nor pending, so the timeout machinery has not cancelled the signal
\* handed to the transport, nor the body stream returned.
C33_StatusReturn(i) ==
    /\ Done(i)
    /\ outcome[i].kind \in {"success", "redirection", "client-error", "server-error"}

C33_TimerSilentOnReturn ==
    \A i \in AllCalls :
        C33_StatusReturn(i) =>
            /\ controller[i] # "aborted"
            /\ timeoutId[i] \notin {"fired", "armed"}
            /\ undiciSignal[i] = "controller" => ~transport[i].sawAborted
            /\ transport[i].cause # "internal"

\* a call with timeout 1 was answered 400 in time; two milliseconds after
\* the timer would have been due its controller is still not aborted
C33_Witness ==
    \E i \in AllCalls :
        /\ C33_StatusReturn(i)
        /\ outcome[i].kind = "client-error"
        /\ args[i].timeout = Num(1)
        /\ now >= startTime[i] + 3
        /\ controller[i] = "live"
        /\ timeoutId[i] = "cleared"

\* the timer of call i comes due within the modelled span of the clock
C34_DueInTime(i) ==
    TimerLatest(args[i].timeout) <= MaxTime - startTime[i]

C34_Waiting(i) == pc[i] = "await" /\ transport[i].state = "pending"

\* C34: with a valid timeout, and a transport that fails once its signal is
\* aborted, every call eventually completes (resolves or rejects) even if
\* the server never responds; with no valid timeout, a call waits until its
\* transport completes or the caller aborts its signal: nothing else ends
\* the wait, and a call never completes while its transport is pending.
C34_CompletesIffBounded ==
    /\ \A i \in AllCalls :
           (pc[i] = "await" /\ IsValidTimeout(args[i].timeout) /\ C34_DueInTime(i))
               ~> Done(i)
    /\ [] \A i \in AllCalls : Done(i) => transport[i].state # "pending"
    /\ [][ \A i \in AllCalls :
              ( /\ C34_Waiting(i)
                /\ ~IsValidTimeout(args[i].timeout)
                /\ ~C34_Waiting(i)' )
              => \/ transport'[i].state = "resolved"
                 \/ transport'[i].cause = "network"
                 \/ /\ transport'[i].cause = "external"
                    /\ ~externalAborted /\ externalAborted' ]_vars

\* the server never answered and the caller never aborted: the call with
\* timeout 1.5 completed with a timeout error
C34_Witness ==
    \E i \in AllCalls :
        /\ Done(i)
        /\ args[i].timeout = Frac(1, 5)
        /\ transport[i].cause = "internal"
        /\ ~externalAborted
        /\ outcome[i].kind = "timeout"

\* the predicates that returned true for the value of call i
C35_TrueGuards(i) ==
    { g \in {"isOk", "wasRedirected", "wasClientError", "wasServerError", "timedOut"} :
        guards[i][g] }

\* the predicate matching what happened to call i: the range of the status
\* the transport resolved with, or the timeout
C35_Expected(i) ==
    IF transport[i].state = "resolved"
    THEN (IF server[i] < 300 THEN "isOk"
          ELSE IF server[i] < 400 THEN "wasRedirected"
          ELSE IF server[i] < 500 THEN "wasClientError"
          ELSE "wasServerError")
    ELSE "timedOut"

\* C35: for every value gotcha() resolves to, exactly one of isOk,
\* wasRedirected, wasClientError, wasServerError and timedOut returns true,
\* and it is the one matching the outcome: the status range of the response,
\* or the timeout.
C35_ExactlyOneGuard ==
    \A i \in AllCalls :
        (guards[i].inspected /\ outcome[i].st = "fulfilled") =>
            /\ C35_TrueGuards(i) = { C35_Expected(i) }
            /\ transport[i].state = "failed" => transport[i].cause = "internal"

\* the guards applied to the timeout error of a timed-out POST: timedOut
\* alone is true
C35_Witness ==
    \E i \in AllCalls :
        /\ guards[i].inspected
        /\ outcome[i].st = "fulfilled"
        /\ transport[i].cause = "internal"
        /\ args[i].method = "POST"
        /\ C35_TrueGuards(i) = {"timedOut"}

\* a call that entered request() with the caller's signal and no valid timeout
C36_SignalOnly(i) ==
    /\ Started(i)
    /\ args[i].signal = "external"
    /\ ~IsValidTimeout(args[i].timeout)

====
